---------------------------- MODULE Spec2Model ----------------------------
(***************************************************************************)
(* Model of the PGR dialogue plugin (src/main.py): the index builder       *)
(* (PGR_Plugin.build_index), the JSON loader (load_json), the dialogue     *)
(* reader (get_dialogue) and the message handler (on_message).             *)
(*                                                                         *)
(* Strings of the program (keywords, message texts) are sequences of       *)
(* characters, so that equality, substring tests and iteration over a str  *)
(* are computed and not assumed.  File names and dialogue lines, which the *)
(* program only passes along or tests for emptiness, are TLA+ strings.     *)
(***************************************************************************)
EXTENDS Integers, Sequences, FiniteSets, TLC

\* ------------------------------------------------------------------ bounds
MaxLen == 2        \* longest keyword / message text, in characters
MaxRecords == 2    \* most records in the configuration file

Chars == {"a", "b"}
Handlers == {"h1", "h2"}

\* All character strings of length at most n.
Str(n) == UNION {[1..m -> Chars] : m \in 0..n}

\* ------------------------------------------------------------ JSON values
\* A JSON value of the kinds the program distinguishes: a list (items), a
\* dict (n entries), a number (n), or a str (items = <<the string>>).
\* "absent" is Python's None, the result of dict.get on a missing key.
JList(items) == [kind |-> "list", items |-> items, n |-> Len(items)]
JDict(n) == [kind |-> "dict", items |-> <<>>, n |-> n]
JNumber(n) == [kind |-> "number", items |-> <<>>, n |-> n]
JStr(s) == [kind |-> "str", items |-> <<s>>, n |-> Len(s)]
JNone == [kind |-> "absent", items |-> <<>>, n |-> 0]

\* Python truthiness: `if x`, `not x`, `x or y`.
Truthy(v) == v.kind # "absent" /\ v.n # 0

\* Iteration `for k in v` over a list (its elements) or a str (its
\* one-character strings).
Elements(v) ==
    IF v.kind = "str"
    THEN [i \in 1..Len(v.items[1]) |-> <<v.items[1][i]>>]
    ELSE v.items

\* str.__contains__: k occurs in text as a contiguous substring.
IsSubstring(k, text) ==
    \E i \in 0..(Len(text) - Len(k)) : SubSeq(text, i + 1, i + Len(k)) = k

\* Python `x in v`: membership in a list, substring test on a str.
PyIn(x, v) ==
    IF v.kind = "str"
    THEN IsSubstring(x, v.items[1])
    ELSE \E i \in 1..Len(v.items) : v.items[i] = x

\* ------------------------------------------------------------- file system
\* A file on disk: missing, not valid JSON, or holding a JSON value.
MissingFile == [kind |-> "missing", items |-> <<>>, n |-> 0]
InvalidFile == [kind |-> "invalid", items |-> <<>>, n |-> 0]

\* A load_json whose except clause lets the error through.
LoadJsonNoCatch(f) ==
    IF f.kind \in {"missing", "invalid"}
    THEN [kind |-> "raised", items |-> <<>>, n |-> 0]
    ELSE f

\* load_json: the parsed value, or [] when open() or json.load() raises.
LoadJson(f) ==
    IF f.kind \in {"missing", "invalid"} THEN JList(<<>>) ELSE f

\* ------------------------------------------------------------ configuration
NoTarget == "None"
NotARecord ==
    [isdict |-> FALSE, file |-> NoTarget, mapping |-> NoTarget,
     keyword |-> JNone, keywords |-> JNone, match_mode |-> "absent"]

Record(file, mapping, keyword, keywords, mode) ==
    [isdict |-> TRUE, file |-> file, mapping |-> mapping,
     keyword |-> keyword, keywords |-> keywords, match_mode |-> mode]

\* Truthiness of a target: None and "" are falsy.
TruthyTarget(t) == t # NoTarget /\ t # ""

\* item.get("file") or item.get("mapping")
TargetOf(item) == IF TruthyTarget(item.file) THEN item.file ELSE item.mapping

\* item.get("keyword") or item.get("keywords", [])
KeywordsOf(item) ==
    IF Truthy(item.keyword) THEN item.keyword
    ELSE IF item.keywords.kind = "absent" THEN JList(<<>>) ELSE item.keywords

\* item.get("match_mode", "contains")
ModeOf(item) == IF item.match_mode = "absent" THEN "contains" ELSE item.match_mode

\* The rule build_index stores for a record.
RuleOf(item) ==
    [keywords |-> KeywordsOf(item), file |-> TargetOf(item),
     match_mode |-> ModeOf(item)]

\* `if not target_file or not keywords: continue`
Skipped(item) == ~TruthyTarget(TargetOf(item)) \/ ~Truthy(KeywordsOf(item))

EmptyMap == [k \in {} |-> NoTarget]

\* The inner loop over one record's keywords (first writer wins).
RECURSIVE AddKeywords(_, _, _, _)
AddKeywords(ks, i, target, b) ==
    IF i > Len(ks) THEN b
    ELSE IF ks[i] \in DOMAIN b.fmap THEN AddKeywords(ks, i + 1, target, b)
    ELSE AddKeywords(ks, i + 1, target,
            [b EXCEPT !.fmap = [k \in DOMAIN b.fmap \cup {ks[i]} |->
                                   IF k = ks[i] THEN target ELSE b.fmap[k]],
                      !.fkw = Append(b.fkw, ks[i])])

\* list.sort(key=len, reverse=True): stable, longest first.
RECURSIVE SortFrom(_, _)
SortFrom(s, l) ==
    IF l < 0 THEN <<>>
    ELSE SelectSeq(s, LAMBDA k : Len(k) = l) \o SortFrom(s, l - 1)

LongestIn(s) ==
    IF s = <<>> THEN 0
    ELSE CHOOSE l \in {Len(s[i]) : i \in 1..Len(s)} :
            \A i \in 1..Len(s) : Len(s[i]) <= l

\* A build_index that forgets to sort fuzzy_keywords.
SortForgotten(s) == s

SortByLenDesc(s) == SortFrom(s, LongestIn(s))

\* A build_index that puts each new rule first.
AppendRuleFront(rules, rule) == <<rule>> \o rules

\* self.role_rules.append(...)
AppendRule(rules, rule) == Append(rules, rule)

\* The loop of build_index from record i on.  b carries role_rules, fuzzy_map,
\* fuzzy_keywords and whether an exception left the method.
RECURSIVE BuildFrom(_, _, _)
BuildFrom(items, i, b) ==
    IF i > Len(items) THEN b
    ELSE IF ~items[i].isdict THEN [b EXCEPT !.raised = TRUE]
    ELSE IF Skipped(items[i]) THEN BuildFrom(items, i + 1, b)
    ELSE LET rule == RuleOf(items[i])
             b1 == [b EXCEPT !.rules = AppendRule(b.rules, rule)]
             b2 == IF rule.match_mode = "contains"
                   THEN AddKeywords(Elements(rule.keywords), 1, rule.file, b1)
                   ELSE b1
         IN BuildFrom(items, i + 1, b2)

NoPattern == [set |-> FALSE, alts |-> <<>>]

\* A build_index that never compiles the pattern.
CompilePatternNever(fkw) == NoPattern

\* Step 2 of build_index: compile the alternation of the sorted keywords.
CompilePattern(fkw) ==
    IF fkw # <<>> THEN [set |-> TRUE, alts |-> SortByLenDesc(fkw)] ELSE NoPattern

\* build_index on the configuration file f.  The result holds the index
\* fields of the plugin object and whether the method raised.
BuildResult(f) ==
    LET raw == LoadJson(f)
        b0 == [rules |-> <<>>, fmap |-> EmptyMap, fkw |-> <<>>, raised |-> FALSE]
    IN IF raw.kind = "raised" THEN [b0 EXCEPT !.raised = TRUE] @@ [pattern |-> NoPattern]
       ELSE IF ~Truthy(raw) THEN b0 @@ [pattern |-> NoPattern]
       ELSE IF raw.kind # "list"
            \* a dict or a str yields str items (no .get); a number is not iterable
            THEN [b0 EXCEPT !.raised = TRUE] @@ [pattern |-> NoPattern]
       ELSE LET b == BuildFrom(raw.items, 1, b0)
            IN IF b.raised THEN b @@ [pattern |-> NoPattern]
               ELSE b @@ [pattern |-> CompilePattern(b.fkw)]


\* ------------------------------------------------------------ get_dialogue
NoLine == [raised |-> FALSE, none |-> TRUE, line |-> ""]

\* A get_dialogue that calls a load_json without its except clause.
GetDialogueNoCatch(src, pick) ==
    LET lines == LoadJsonNoCatch(src)
    IN IF lines.kind = "raised" THEN [NoLine EXCEPT !.raised = TRUE]
       ELSE IF Truthy(lines) /\ lines.kind = "list"
            THEN [raised |-> FALSE, none |-> FALSE, line |-> lines.items[pick]]
       ELSE NoLine

\* get_dialogue on the dialogue file src; pick is the index random.choice
\* draws.  none is the None result, raised an exception leaving the method.
GetDialogue(src, pick) ==
    LET lines == LoadJson(src)
    IN IF lines.kind = "raised" THEN [NoLine EXCEPT !.raised = TRUE]
       ELSE IF Truthy(lines) /\ lines.kind = "list"
            THEN [raised |-> FALSE, none |-> FALSE, line |-> lines.items[pick]]
       ELSE NoLine

\* `if selected_text:` -- None and the empty line are falsy.
TruthyLine(sel) == ~sel.none /\ sel.line # ""

\* -------------------------------------------------------------- on_message
DefaultProbability == 3      \* 0.3, in tenths

\* text = msg_obj.message_str or ""
TextOf(message_str) ==
    IF Truthy(message_str) THEN message_str.items[1] ELSE <<>>

\* probability = float(self.config.get("probability", 0.3)), in tenths
ProbabilityOf(cfg) == IF cfg.kind = "absent" THEN DefaultProbability ELSE cfg.n

\* The test of one rule in the loop of on_message.
IsMatch(rule, text, pattern) ==
    IF rule.match_mode = "exact" THEN PyIn(text, rule.keywords)
    ELSE IF rule.match_mode = "contains" /\ pattern.set
         THEN \E i \in 1..Len(Elements(rule.keywords)) :
                 IsSubstring(Elements(rule.keywords)[i], text)
    ELSE FALSE

\* What one invocation did: the rules it tested, the rolls it drew, the
\* dialogue reads it made, the results it yielded, whether it raised.
EmptyLog ==
    [evaluated |-> <<>>, rolls |-> <<>>, reads |-> <<>>, out |-> <<>>,
     raised |-> FALSE]

RECURSIVE ScanFrom(_, _, _, _)

\* An `if is_match:` block without its final `return`: the loop goes on.
AfterHitContinues(idx, in, i, lg) == ScanFrom(idx, in, i + 1, lg)

\* The `return` that ends the `if is_match:` block.
AfterHit(idx, in, i, lg) == lg

\* `if roll < probability:`
RollSucceeds(roll, probability) == roll < probability

\* `if selected_text: yield event.plain_result(selected_text)`
Emit(lg, sel) ==
    IF TruthyLine(sel) THEN [lg EXCEPT !.out = Append(@, sel.line)] ELSE lg

\* An `if is_match:` block that returns only when the roll succeeds.
OnHitFallsThrough(idx, in, i, lg) ==
    LET probability == ProbabilityOf(in.probability)
        lg1 == [lg EXCEPT !.rolls = Append(@, [rule |-> i, roll |-> in.roll,
                                                probability |-> probability])]
    IN IF RollSucceeds(in.roll, probability)
       THEN LET sel == GetDialogue(in.src, in.pick)
                lg2 == [lg1 EXCEPT !.reads =
                          Append(@, [rule |-> i, target |-> idx.rules[i].file,
                                     src |-> in.src, selected |-> sel])]
            IN IF sel.raised THEN [lg2 EXCEPT !.raised = TRUE]
               ELSE AfterHit(idx, in, i, Emit(lg2, sel))
       ELSE ScanFrom(idx, in, i + 1, lg1)

\* The `if is_match:` block for rule i.
OnHit(idx, in, i, lg) ==
    LET probability == ProbabilityOf(in.probability)
        lg1 == [lg EXCEPT !.rolls = Append(@, [rule |-> i, roll |-> in.roll,
                                                probability |-> probability])]
    IN IF RollSucceeds(in.roll, probability)
       THEN LET sel == GetDialogue(in.src, in.pick)
                lg2 == [lg1 EXCEPT !.reads =
                          Append(@, [rule |-> i, target |-> idx.rules[i].file,
                                     src |-> in.src, selected |-> sel])]
            IN IF sel.raised THEN [lg2 EXCEPT !.raised = TRUE]
               ELSE AfterHit(idx, in, i, Emit(lg2, sel))
       ELSE AfterHit(idx, in, i, lg1)

\* `for rule in self.role_rules:` from rule i on.
ScanFrom(idx, in, i, lg) ==
    IF i > Len(idx.rules) THEN lg
    ELSE LET lg1 == [lg EXCEPT !.evaluated = Append(@, i)]
         IN IF IsMatch(idx.rules[i], in.text, idx.pattern)
            THEN OnHit(idx, in, i, lg1)
            ELSE ScanFrom(idx, in, i + 1, lg1)

\* An on_message that drops the rule it matched from self.role_rules.
OnMessageConsumesRule(self, in) ==
    LET lg == ScanFrom(self, in, 1, EmptyLog)
    IN [index |-> IF lg.rolls = <<>> THEN self
                  ELSE [self EXCEPT !.rules =
                          SelectSeq(self.rules,
                                    LAMBDA r : r # self.rules[lg.rolls[1].rule])],
        log |-> lg]

\* on_message on the plugin object self: what the invocation did, and the
\* index fields of self when it ends (the method assigns to none of them).
OnMessageResult(self, in) ==
    [index |-> self, log |-> ScanFrom(self, in, 1, EmptyLog)]

\* ------------------------------------------------------------------- state
VARIABLES
    config_file,    \* dia_mapping.json on disk
    built,          \* "no" before __init__, "ok" after it, "raised" if build_index raised
    role_rules,     \* self.role_rules
    fuzzy_map,      \* self.fuzzy_map
    regex_pattern,  \* self.regex_pattern
    dispatch,       \* the handler invocations the host may have in flight
    hpc,            \* per invocation: "idle", "yielded" (suspended at yield), "returned"
    text,           \* per invocation: the message text
    log             \* per invocation: what it did

vars == <<config_file, built, role_rules, fuzzy_map, regex_pattern,
          dispatch, hpc, text, log>>

Index == [rules |-> role_rules, fmap |-> fuzzy_map, pattern |-> regex_pattern]

\* ------------------------------------------------------------------ inputs
Modes == {"absent", "exact", "contains"}

\* The keywords of the configurations: "", "a", "ab", "aba", ... up to MaxLen
\* characters, and "b".
Alternating(n) == [i \in 1..n |-> IF i % 2 = 1 THEN "a" ELSE "b"]
Keywords == {Alternating(n) : n \in 0..MaxLen} \cup {<<"b">>}

\* Keyword values: a list of keywords, or a bare str (itself a sequence of
\* strings in Python).
KeywordLists == {JList(<<k>>) : k \in Keywords}
KeywordPairs == {JList(<<j, k>>) : j, k \in Keywords}
KeywordStrs == {JStr(k) : k \in Keywords \ {<<>>}}

\* Records for the handler's specifications.
MatchRecords ==
    {Record("a.json", NoTarget, kw, JNone, "exact") :
        kw \in KeywordLists \cup KeywordStrs}
    \cup {Record("b.json", NoTarget, kw, JNone, "contains") : kw \in KeywordLists}
    \cup {Record("b.json", NoTarget, JStr(<<"a", "b">>), JNone, "contains"),
          Record("b.json", NoTarget, JList(<< <<"a">>, <<"b">> >>), JNone, "absent")}

Configs(records) == UNION {[1..n -> records] : n \in 0..MaxRecords}

MessageStrs == {JNone} \cup {JStr(s) : s \in Str(MaxLen)}
ProbabilityConfigs == {JNone, JNumber(5)}   \* the default 0.3, or 0.5
Rolls == {1, 3, 5}        \* random.random() in tenths
DialogueFiles ==
    {MissingFile, InvalidFile, JDict(1), JList(<<>>), JList(<<"hi", "">>)}
Picks(src) == IF src.kind = "list" /\ src.n > 0 THEN 1..src.n ELSE {1}

InitWith(files, slots) ==
    /\ config_file \in files
    /\ built = "no"
    /\ role_rules = <<>>
    /\ fuzzy_map = EmptyMap
    /\ regex_pattern = NoPattern
    /\ dispatch = slots
    /\ hpc = [h \in Handlers |-> "idle"]
    /\ text = [h \in Handlers |-> <<>>]
    /\ log = [h \in Handlers |-> EmptyLog]

Init == InitWith({JList(c) : c \in Configs(MatchRecords)}, {"h1"})

\* ----------------------------------------------------------------- actions
\* __init__: build_index runs once, before any handler invocation.
BuildIndex ==
    /\ built = "no"
    /\ LET r == BuildResult(config_file)
       IN /\ built' = IF r.raised THEN "raised" ELSE "ok"
          /\ role_rules' = r.rules
          /\ fuzzy_map' = r.fmap
          /\ regex_pattern' = r.pattern
    /\ UNCHANGED <<config_file, dispatch, hpc, text, log>>

\* The host invokes on_message; it runs to its yield or to its end.
OnMessage(h) ==
    /\ built = "ok"
    /\ h \in dispatch
    /\ hpc[h] = "idle"
    /\ \E m \in MessageStrs, p \in ProbabilityConfigs, roll \in Rolls,
          src \in DialogueFiles :
         \E pick \in Picks(src) :
            LET in == [text |-> TextOf(m), probability |-> p, roll |-> roll,
                       src |-> src, pick |-> pick]
                r == OnMessageResult(Index, in)
            IN /\ text' = [text EXCEPT ![h] = in.text]
               /\ log' = [log EXCEPT ![h] = r.log]
               /\ hpc' = [hpc EXCEPT ![h] =
                            IF r.log.out # <<>> THEN "yielded" ELSE "returned"]
               /\ role_rules' = r.index.rules
               /\ fuzzy_map' = r.index.fmap
               /\ regex_pattern' = r.index.pattern
    /\ UNCHANGED <<config_file, built, dispatch>>

\* The host resumes the generator after its yield: it returns.
Resume(h) ==
    /\ hpc[h] = "yielded"
    /\ hpc' = [hpc EXCEPT ![h] = "returned"]
    /\ UNCHANGED <<config_file, built, role_rules, fuzzy_map, regex_pattern,
                   dispatch, text, log>>

\* The invocation is over; the slot takes the next message.
Finish(h) ==
    /\ hpc[h] = "returned"
    /\ hpc' = [hpc EXCEPT ![h] = "idle"]
    /\ text' = [text EXCEPT ![h] = <<>>]
    /\ log' = [log EXCEPT ![h] = EmptyLog]
    /\ UNCHANGED <<config_file, built, role_rules, fuzzy_map, regex_pattern,
                   dispatch>>

Next ==
    \/ BuildIndex
    \/ \E h \in Handlers : OnMessage(h)
    \/ \E h \in Handlers : Resume(h)
    \/ \E h \in Handlers : Finish(h)

Spec == Init /\ [][Next]_vars


\* -------------------------------------------------- other specifications
\* Records in which either alias of a field is missing, empty or present.
AliasRecords ==
    {Record(f, m, JList(<< <<"a">> >>), JNone, mode) :
        f \in {NoTarget, "", "a.json"}, m \in {NoTarget, "b.json"}, mode \in Modes}
    \cup {Record("a.json", NoTarget, k, ks, mode) :
            k \in {JNone, JList(<<>>), JList(<< <<"a">> >>)},
            ks \in {JNone, JList(<< <<"b">> >>)}, mode \in {"absent", "exact"}}

\* Records listing one or two keywords, or a bare str.
ListRecords ==
    {Record("a.json", NoTarget, kw, JNone, "contains") : kw \in KeywordPairs}
    \cup {Record("b.json", NoTarget, kw, JNone, m) :
            kw \in KeywordLists, m \in {"exact", "contains"}}
    \cup {Record("a.json", NoTarget, JStr(<<"a", "b">>), JNone, "contains")}

IndexRecords == AliasRecords \cup ListRecords \cup {NotARecord}

ConfigFiles ==
    {MissingFile, InvalidFile, JDict(0), JDict(1), JNumber(0), JNumber(1)}
    \cup {JList(c) : c \in Configs(IndexRecords)}

\* The index builder alone, over every shape of configuration file.
InitIndex == InitWith(ConfigFiles, {})
NextIndex == BuildIndex
SpecIndex == InitIndex /\ [][NextIndex]_vars

\* Two invocations in flight over one index.
SharedRecords ==
    {Record("a.json", NoTarget, JList(<< <<"a", "b">> >>), JNone, "contains"),
     Record("b.json", NoTarget, JList(<< <<"a">> >>), JNone, "exact")}

InitShared == InitWith({JList(c) : c \in Configs(SharedRecords)}, Handlers)
SpecShared == InitShared /\ [][Next]_vars

\* ------------------------------------------------------------------ claims
Range(s) == {s[i] : i \in 1..Len(s)}
Ran(h) == hpc[h] # "idle"
\* Rule i matched in invocation h: the invocation drew a roll for it.
Hit(h, i) == \E r \in Range(log[h].rolls) : r.rule = i
Consulted(h, i) ==
    \/ i \in Range(log[h].evaluated)
    \/ \E r \in Range(log[h].rolls) : r.rule = i
    \/ \E r \in Range(log[h].reads) : r.rule = i
BothMatch(h, i, j) ==
    /\ i < j
    /\ IsMatch(role_rules[i], text[h], regex_pattern)
    /\ IsMatch(role_rules[j], text[h], regex_pattern)

\* C1: when two rules both match the message, the scan stops at the earlier
\* one: the later rule is never tested, no roll is drawn for it and its
\* dialogue source is never read, whether the earlier rule's roll succeeds
\* or fails; the one roll of the invocation is drawn for the first rule
\* that matches.
C1_ScanStopsAtFirstMatch ==
    \A h \in Handlers : Ran(h) =>
        \A i, j \in 1..Len(role_rules) :
            BothMatch(h, i, j) =>
                /\ ~Consulted(h, j)
                /\ (\A k \in 1..(i - 1) :
                        ~IsMatch(role_rules[k], text[h], regex_pattern))
                      => Hit(h, i)

\* C1 witness: two rules match, the earlier one's roll failed, the
\* invocation is over.
C1_Witness ==
    \E h \in Handlers : hpc[h] = "returned" /\
        \E i, j \in 1..Len(role_rules) :
            /\ BothMatch(h, i, j)
            /\ \E r \in Range(log[h].rolls) :
                  r.rule = i /\ ~(r.roll < r.probability)

\* C2: one invocation yields at most one response, draws at most one roll
\* and reads at most one dialogue source.
C2_SingleFire ==
    \A h \in Handlers :
        /\ Len(log[h].out) <= 1
        /\ Len(log[h].rolls) <= 1
        /\ Len(log[h].reads) <= 1

\* C2 witness: a response was yielded while a later rule matches too.
C2_Witness ==
    \E h \in Handlers : Len(log[h].out) = 1 /\
        \E i, j \in 1..Len(role_rules) : BothMatch(h, i, j)

\* C3 (as claimed): a tested exact-mode rule matches iff the message text
\* equals one of the rule's keywords.
C3_ExactIffEqualsKeyword ==
    \A h \in Handlers : Ran(h) =>
        \A i \in Range(log[h].evaluated) :
            role_rules[i].match_mode = "exact" =>
                (Hit(h, i) <=>
                    \E k \in Range(Elements(role_rules[i].keywords)) :
                        k = text[h])

\* C4: a tested contains-mode rule matches iff one of its own keywords is a
\* substring of the message, and the pattern is set whenever the rule list
\* holds a contains-mode rule.
C4_ContainsIffOwnKeyword ==
    built = "ok" =>
        /\ (\E i \in 1..Len(role_rules) : role_rules[i].match_mode = "contains")
              => regex_pattern.set
        /\ \A h \in Handlers : Ran(h) =>
              \A i \in Range(log[h].evaluated) :
                  role_rules[i].match_mode = "contains" =>
                      (Hit(h, i) <=>
                          \E k \in Range(Elements(role_rules[i].keywords)) :
                              IsSubstring(k, text[h]))

\* C4 witness: a contains-mode rule matched on a keyword of its own that
\* another keyword of the index would not have matched, and a contains-mode
\* rule without any keyword in the message was tested and did not match.
C4_Witness ==
    \E h \in Handlers : Ran(h) /\
        \E i, j \in Range(log[h].evaluated) :
            /\ role_rules[i].match_mode = "contains"
            /\ role_rules[j].match_mode = "contains"
            /\ ~Hit(h, i)
            /\ Hit(h, j)
            /\ Len(text[h]) > Len(Elements(role_rules[j].keywords)[1])

\* C5 (as claimed): a missing, unreadable, empty or structurally invalid
\* configuration makes build_index end without an error and with an empty
\* index.
Malformed(f) ==
    \/ f.kind # "list"
    \/ f.items = <<>>
    \/ \E i \in 1..Len(f.items) : ~f.items[i].isdict
C5_BadConfigGivesEmptyIndex ==
    (built # "no" /\ Malformed(config_file)) =>
        /\ built = "ok"
        /\ role_rules = <<>>
        /\ fuzzy_map = EmptyMap
        /\ ~regex_pattern.set

\* C6: when the matched rule's roll succeeded and its dialogue source is
\* missing, unreadable or empty, the invocation yields nothing, raises
\* nothing and tests no later rule.
Unavailable(src) ==
    src.kind \in {"missing", "invalid"} \/ (src.kind = "list" /\ src.n = 0)
C6_NoDialogueNoResponse ==
    \A h \in Handlers : Ran(h) =>
        \A rd \in Range(log[h].reads) : Unavailable(rd.src) =>
            /\ log[h].out = <<>>
            /\ ~log[h].raised
            /\ hpc[h] = "returned"
            /\ \A i \in Range(log[h].evaluated) : i <= rd.rule

\* C6 witness: the source of the matched rule was missing and a later rule
\* matches the message too.
C6_Witness ==
    \E h \in Handlers : Ran(h) /\
        \E rd \in Range(log[h].reads) :
            /\ rd.src.kind = "missing"
            /\ \E j \in 1..Len(role_rules) : BothMatch(h, rd.rule, j)

\* C7 (as claimed): the source is read iff the roll is below the
\* probability, and a line selected from the source, whatever its content,
\* is the single response.
C7_RollGatesReadAndLineIsEmitted ==
    \A h \in Handlers : Ran(h) =>
        /\ \A r \in Range(log[h].rolls) :
              (\E rd \in Range(log[h].reads) : rd.rule = r.rule)
                  <=> r.roll < r.probability
        /\ \A rd \in Range(log[h].reads) :
              ~rd.selected.none => log[h].out = <<rd.selected.line>>

\* C8: after build_index the rule list is the subsequence, in configuration
\* order, of the records supplying a target and a non-empty keyword set; a
\* record without match_mode is stored with mode contains.
HasTarget(item) == TruthyTarget(item.file) \/ TruthyTarget(item.mapping)
HasKeywords(item) == Truthy(item.keyword) \/ Truthy(item.keywords)
ValidItems ==
    SelectSeq(config_file.items, LAMBDA it : HasTarget(it) /\ HasKeywords(it))
C8_RulesAreValidRecordsInOrder ==
    (built = "ok" /\ config_file.kind = "list") =>
        /\ Len(role_rules) = Len(ValidItems)
        /\ \A i \in 1..Len(role_rules) :
              /\ role_rules[i].file \in {ValidItems[i].file, ValidItems[i].mapping}
              /\ TruthyTarget(role_rules[i].file)
              /\ role_rules[i].keywords
                    \in {ValidItems[i].keyword, ValidItems[i].keywords}
              /\ Truthy(role_rules[i].keywords)
              /\ role_rules[i].match_mode =
                    IF ValidItems[i].match_mode = "absent" THEN "contains"
                    ELSE ValidItems[i].match_mode

\* C8 witness: a record without keywords was skipped, and the record after
\* it, which has no match_mode, was stored.
C8_Witness ==
    /\ built = "ok"
    /\ config_file.kind = "list"
    /\ Len(config_file.items) = 2
    /\ ~HasKeywords(config_file.items[1])
    /\ config_file.items[2].match_mode = "absent"
    /\ Len(role_rules) = 1

\* C9: no handler invocation changes the index: with invocations
\* interleaved at the yield, it stays the one build_index produced.
C9_IndexReadOnly ==
    built = "ok" =>
        LET r == BuildResult(config_file)
        IN /\ role_rules = r.rules
           /\ fuzzy_map = r.fmap
           /\ regex_pattern = r.pattern

\* C9 witness: one invocation is suspended at its yield and another ran to
\* its end and matched a rule meanwhile.
C9_Witness ==
    /\ hpc["h1"] = "yielded"
    /\ hpc["h2"] = "returned"
    /\ log["h2"].rolls # <<>>

\* The keywords of the contains-mode rules, in the order build_index sees them.
RECURSIVE SeenFrom(_)
SeenFrom(i) ==
    IF i > Len(role_rules) THEN <<>>
    ELSE (IF role_rules[i].match_mode = "contains"
          THEN Elements(role_rules[i].keywords) ELSE <<>>) \o SeenFrom(i + 1)
FirstSeen(k) ==
    CHOOSE p \in 1..Len(SeenFrom(1)) :
        SeenFrom(1)[p] = k /\ \A q \in 1..(p - 1) : SeenFrom(1)[q] # k
Lists(i, k) == k \in Range(Elements(role_rules[i].keywords))
Alts == regex_pattern.alts
\* The ordering of the alternation and its agreement with the keyword map.
KeywordListOrdered ==
    /\ Range(Alts) = Range(SeenFrom(1))
    /\ DOMAIN fuzzy_map = Range(Alts)
    /\ \A p, q \in 1..Len(Alts) : p < q =>
          /\ Alts[p] # Alts[q]
          /\ Len(Alts[p]) >= Len(Alts[q])
          /\ Len(Alts[p]) = Len(Alts[q]) => FirstSeen(Alts[p]) < FirstSeen(Alts[q])
          /\ ~(IsSubstring(Alts[q], Alts[p]) /\ Len(Alts[q]) > Len(Alts[p]))

\* C10 (as claimed): each keyword of the list is bound to the target of the
\* first rule in configuration order that lists it.
C10_BoundToFirstListingRule ==
    built = "ok" =>
        /\ KeywordListOrdered
        /\ \A k \in Range(Alts) :
              \E i \in 1..Len(role_rules) :
                  /\ Lists(i, k)
                  /\ \A j \in 1..(i - 1) : ~Lists(j, k)
                  /\ fuzzy_map[k] = role_rules[i].file

\* C10 (amended): the keyword list holds each keyword of the contains-mode
\* rules once, longest first with ties in first-seen order, so a proper
\* substring of a longer keyword comes after it; each keyword is bound to
\* the target of the first contains-mode rule that lists it.
C10_BoundToFirstContainsRule ==
    built = "ok" =>
        /\ KeywordListOrdered
        /\ \A k \in Range(Alts) :
              \E i \in 1..Len(role_rules) :
                  /\ role_rules[i].match_mode = "contains" /\ Lists(i, k)
                  /\ \A j \in 1..(i - 1) :
                        ~(role_rules[j].match_mode = "contains" /\ Lists(j, k))
                  /\ fuzzy_map[k] = role_rules[i].file

\* C10 witness: a keyword and a longer keyword containing it, listed in that
\* order, and a keyword two contains-mode rules with different targets list.
C10_Witness ==
    /\ built = "ok"
    /\ \E p, q \in 1..Len(Alts) :
          /\ p < q
          /\ IsSubstring(Alts[q], Alts[p])
          /\ FirstSeen(Alts[q]) < FirstSeen(Alts[p])
    /\ Len(role_rules) = 2
    /\ role_rules[1].match_mode = "contains"
    /\ role_rules[2].match_mode = "contains"
    /\ role_rules[1].file # role_rules[2].file
    /\ \E k \in Range(Alts) : Lists(1, k) /\ Lists(2, k)

=============================================================================
